---- MODULE Spec2Model ----
(***************************************************************************)
(* Model of the score loader of src/engraving/rw/scorereader.cpp:          *)
(* ScoreReader::loadMscz, ScoreReader::read and ScoreReader::doRead.       *)
(*                                                                         *)
(* The XML stream is a sequence of tokens (start element, text, end        *)
(* element) with a cursor; the version-specific readers, the element       *)
(* reader of a Score element and the reader of an excerpt are external     *)
(* collaborators whose outcome is chosen nondeterministically.             *)
(***************************************************************************)
EXTENDS Integers, Sequences, FiniteSets, TLC

\* ------------------------------------------------------------------ bounds

\* Longest list of children of the root element that is enumerated.
MaxChildren == 2

\* Longest list of excerpt names the package declares.
MaxExcerpts == 2

\* Highest format version the implementation understands (libmscore).
MSCVERSION == 400

\* ------------------------------------------------------------- text values

\* Text is a sequence of one-character strings.
DigitVal(c) ==
    CASE c = "0" -> 0 [] c = "1" -> 1 [] c = "2" -> 2 [] c = "3" -> 3
      [] c = "4" -> 4 [] c = "5" -> 5 [] c = "6" -> 6 [] c = "7" -> 7
      [] c = "8" -> 8 [] c = "9" -> 9 [] c = "a" -> 10 [] c = "b" -> 11
      [] c = "c" -> 12 [] c = "d" -> 13 [] c = "e" -> 14 [] c = "f" -> 15
      [] OTHER -> 99

RECURSIVE ToIntAcc(_, _, _)
ToIntAcc(s, base, acc) ==
    IF s = <<>> THEN acc
    ELSE IF DigitVal(Head(s)) >= base THEN -1
    ELSE ToIntAcc(Tail(s), base, acc * base + DigitVal(Head(s)))

\* String::toInt(ok, base): the number, or 0 when the text is no number.
ToInt(s, base) ==
    IF s = <<>> THEN 0
    ELSE LET n == ToIntAcc(s, base, 0) IN IF n < 0 THEN 0 ELSE n

RECURSIVE SplitAcc(_, _, _, _)
SplitAcc(s, sep, cur, acc) ==
    IF s = <<>> THEN Append(acc, cur)
    ELSE IF Head(s) = sep THEN SplitAcc(Tail(s), sep, <<>>, Append(acc, cur))
    ELSE SplitAcc(Tail(s), sep, Append(cur, Head(s)), acc)

\* String::split(sep)
Split(s, sep) == SplitAcc(s, sep, <<>>, <<>>)

\* ------------------------------------------------------------- XML tokens

StartTok(n, v, p) == [k |-> "S", name |-> n, version |-> v, text |-> <<>>, parse |-> p]
TextTok(t) == [k |-> "T", name |-> "", version |-> <<>>, text |-> t, parse |-> ""]
EndTok == [k |-> "E", name |-> "", version |-> <<>>, text |-> <<>>, parse |-> ""]

Elem(n, inner) == <<StartTok(n, <<>>, "")>> \o inner \o <<EndTok>>

\* XmlReader::readNextStartElement: read on to the next start element of the
\* current element (TRUE) or to its end element or the end of the stream (FALSE).
RECURSIVE readNextStartElement(_, _)
readNextStartElement(toks, pos) ==
    IF pos + 1 > Len(toks) THEN [ok |-> FALSE, pos |-> Len(toks) + 1]
    ELSE IF toks[pos + 1].k = "T" THEN readNextStartElement(toks, pos + 1)
    ELSE [ok |-> toks[pos + 1].k = "S", pos |-> pos + 1]

RECURSIVE MatchEndFrom(_, _, _)
MatchEndFrom(toks, p, depth) ==
    IF p > Len(toks) THEN Len(toks) + 1
    ELSE IF toks[p].k = "S" THEN MatchEndFrom(toks, p + 1, depth + 1)
    ELSE IF toks[p].k = "E"
         THEN IF depth = 0 THEN p ELSE MatchEndFrom(toks, p + 1, depth - 1)
    ELSE MatchEndFrom(toks, p + 1, depth)

\* XmlReader::skipCurrentElement: from a start element to its end element.
skipCurrentElement(toks, pos) == MatchEndFrom(toks, pos + 1, 0)

\* XmlReader::readText: the text of the current element; the cursor ends on
\* the element's end element.
readText(toks, pos) ==
    IF pos + 1 <= Len(toks) /\ toks[pos + 1].k = "T" THEN toks[pos + 1].text ELSE <<>>

\* ------------------------------------------------------------ input streams

\* Declared versions: "1.13" ... "4.01", and "4", which has no minor component.
Versions ==
    { <<"1", ".", "1", "3">>, <<"1", ".", "1", "4">>, <<"1", ".", "1", "5">>,
      <<"2", ".", "0", "6">>, <<"2", ".", "0", "7">>, <<"2", ".", "0", "8">>,
      <<"3", ".", "0", "0">>, <<"3", ".", "0", "1">>, <<"3", ".", "9", "9">>,
      <<"4", ".", "0", "0">>, <<"4", ".", "0", "1">>, <<"4">> }

V206 == <<"2", ".", "0", "6">>
V302 == <<"3", ".", "0", "2">>
V400 == <<"4", ".", "0", "0">>

\* The children a root element is built from.
PV == Elem("programVersion", <<TextTok(<<"4", ".", "0">>)>>)
PR == Elem("programRevision", <<TextTok(<<"3", "f">>)>>)
ScoreEl(p) == <<StartTok("Score", <<>>, p), EndTok>>
RevisionEl == Elem("Revision", Elem("programVersion", <<TextTok(<<"r">>)>>))
UnknownEmpty == Elem("foo", <<>>)
UnknownNested == Elem("foo", Elem("programVersion", <<TextTok(<<"n">>)>>))

ChildKinds ==
    { PV, PR, ScoreEl("ok"), ScoreEl("fail"), ScoreEl("failCustom"),
      RevisionEl, UnknownEmpty, UnknownNested }

RECURSIVE Flatten(_)
Flatten(ss) == IF ss = <<>> THEN <<>> ELSE Head(ss) \o Flatten(Tail(ss))

Bodies == { Flatten(cs) : cs \in UNION { [1..n -> ChildKinds] : n \in 0..MaxChildren } }

Root(v, body) == <<StartTok("museScore", v, "")>> \o body \o <<EndTok>>

SampleBody == PV \o ScoreEl("ok")

\* An unrelated top-level element that holds a museScore element inside.
TopUnrelated == Elem("other", Root(V206, <<>>))

Streams ==
    { Root(v, SampleBody) : v \in Versions }
    \cup { TopUnrelated \o Root(v, SampleBody) : v \in {V302, V400} }
    \cup { Root(V400, SampleBody) \o Root(V206, SampleBody),
           Root(V206, SampleBody) \o Root(V400, SampleBody) }
    \cup { <<>>, Elem("other", <<>>), TopUnrelated }
    \cup { Root(V400, b) : b \in Bodies }

\* --------------------------------------------------------------- documents

AllNames == <<"Violin", "Cello", "Flute", "Horn">>

OldExcerpt == [name |-> "Old", score |-> 0, tracks |-> {}]

NewMaster(ec, ad, ver, exs) ==
    [ mscVersion |-> ver, excerptsChanged |-> ec, autosaveDirty |-> ad,
      mscoreVersion |-> <<>>, mscoreRevision |-> 0, scores |-> 0,
      style |-> "default", chordList |-> "none", excerpts |-> exs,
      audio |-> IF exs = <<>> THEN "none" ELSE "empty" ]

\* The masters a load starts from: a fresh one, with each flag set or not, and
\* a reused one that already owns an excerpt, has an audio object and carries
\* the version of an older file.
Masters ==
    { NewMaster(FALSE, FALSE, MSCVERSION, <<>>), NewMaster(FALSE, TRUE, MSCVERSION, <<>>),
      NewMaster(TRUE, FALSE, MSCVERSION, <<>>), NewMaster(TRUE, TRUE, 206, <<OldExcerpt>>) }

\* What the package holds for the style and the chord list side files.
SideFiles == { [style |-> FALSE, chordList |-> FALSE], [style |-> TRUE, chordList |-> TRUE] }

\* What parsing the content of the excerpt of a name gives: the reader's
\* verdict and the track mapping its context has collected. The content of
\* "Cello" does not parse.
ExcerptContent(name) ==
    IF name = "Cello" THEN [ok |-> FALSE, tracks |-> {<<0, 0>>}]
    ELSE IF name = "Violin" THEN [ok |-> TRUE, tracks |-> {<<0, 0>>, <<1, 4>>}]
    ELSE [ok |-> TRUE, tracks |-> {<<0, 8>>}]

\* The error classifications a legacy reader may return.
LegacyErrs == { "NoError", "FileBadFormat", "FileCriticallyCorrupted" }

\* XmlReader::errorString: the diagnostic of the stream, which is empty unless
\* the stream had nothing to read.
errorString(toks) == IF toks = <<>> THEN "Premature end of document" ELSE ""

\* What an out-of-range read of the version's component list may yield.
GarbageInts == { 0, 7 }

\* ---------------------------------------------------------------- results

make_ret(err) == [err |-> err, text |-> ""]
make_ok == make_ret("NoError")

\* ------------------------------------------------------------------ state

VARIABLES
    pc,                  \* where the call is: "idle", "read", "doRead", "readDone",
                         \* "excerpts", "done", "crashed"
    entry,               \* the function the caller entered: "loadMscz" or "read"
    opened,              \* MscReader::isOpened()
    ignoreVersionError,  \* ReadContext::ignoreVersionError()
    testMode,            \* MScore::testMode
    styleHook,           \* whether read was given a style hook (non-null pointer)
    tokens,              \* the main score stream
    xmlPos,              \* the cursor of the stream: index of the current token
    xmlError,            \* XmlReader::error()
    master,              \* the master score
    master0,             \* the master score as it was before the call
    rootPos,             \* position of the museScore element read handled, 0 if none
    names,               \* MscReader::excerptNames()
    todo,                \* the excerpt names the loop has still to visit
    parts,               \* the part scores created by masterScore->createScore()
    log,                 \* the calls made so far, in order
    readRet,             \* the value ScoreReader::read returned
    ret,                 \* the local variable ret of loadMscz
    result               \* the value returned to the caller

vars ==
    << pc, entry, opened, ignoreVersionError, testMode, styleHook, tokens, xmlPos,
       xmlError, master, master0, rootPos, names, todo, parts, log, readRet, ret, result >>

NoRet == [err |-> "none", text |-> ""]

Init ==
    /\ pc = "idle"
    /\ entry = "none"
    /\ opened = FALSE
    /\ ignoreVersionError \in BOOLEAN
    /\ testMode \in BOOLEAN
    /\ styleHook = FALSE
    /\ tokens \in Streams
    /\ xmlPos = 0
    /\ xmlError = "NoError"
    /\ master \in Masters
    /\ master0 = master
    /\ rootPos = 0
    /\ names = <<>>
    /\ todo = <<>>
    /\ parts = <<>>
    /\ log = <<>>
    /\ readRet = NoRet
    /\ ret = NoRet
    /\ result = NoRet

\* ------------------------------------------------------------- ScoreReader

\* The policy without its check of the unsupported 3.00 format.
VersionErrorNo300(v, ignore) ==
    IF ignore THEN "NoError"
    ELSE IF v > MSCVERSION THEN "FileTooNew"
    ELSE IF v < 114 THEN "FileTooOld"
    ELSE "NoError"

\* The version-acceptance policy of read.
VersionError(v, ignore) ==
    IF ignore THEN "NoError"
    ELSE IF v > MSCVERSION THEN "FileTooNew"
    ELSE IF v < 114 THEN "FileTooOld"
    ELSE IF v = 300 THEN "FileOld300Format"
    ELSE "NoError"

\* The style rule without the test-mode switch.
NeedsDefaultStyleNoTestMode(hook, v, tm) == hook /\ v < 400

\* Whether read stages the default style of the version before it reads on.
NeedsDefaultStyle(hook, v, tm) == hook /\ (v < 400 \/ tm)

\* The dispatch with the first bucket ending one version early.
SelectReaderOffByOne(v, tm) ==
    IF v < 114 THEN "read114"
    ELSE IF v <= 207 THEN "read206"
    ELSE IF v < 400 \/ tm THEN "read302"
    ELSE "doRead"

\* The reader read delegates to.
SelectReader(v, tm) ==
    IF v <= 114 THEN "read114"
    ELSE IF v <= 207 THEN "read206"
    ELSE IF v < 400 \/ tm THEN "read302"
    ELSE "doRead"

\* The end of read without the reset of the autosave flag.
FinishReadKeepsDirty(m) == [m EXCEPT !.excerptsChanged = FALSE]

\* The end of read after the chosen reader has returned.
FinishRead(m) == [m EXCEPT !.excerptsChanged = FALSE, !.autosaveDirty = FALSE]

\* The result of read when the stream ends without a root element.
CorruptedRet(diagnostic) == [err |-> "FileCorrupted", text |-> diagnostic]

\* A top-level element that is not skipped: the scan goes on inside it.
TopUnknownNoSkip(toks, pos) == pos

\* XmlReader::unknown on a top-level element that is not the root: the element
\* is skipped with all it holds.
TopUnknown(toks, pos) == skipCurrentElement(toks, pos)

\* The classification with its two outcomes exchanged.
ScoreErrSwapped(error) ==
    IF error = "CustomError" THEN "FileBadFormat" ELSE "FileCriticallyCorrupted"

\* The classification doRead gives a Score element that could not be read.
ScoreErr(error) ==
    IF error = "CustomError" THEN "FileCriticallyCorrupted" ELSE "FileBadFormat"

\* The excerpt gate with the threshold of the 3.00 generation.
ReadsExcerptsFrom300(v) == v >= 300

\* Whether loadMscz reads the excerpts of the package.
ReadsExcerpts(v) == v >= 400

\* A loader that merges the verdict on an excerpt into its result.
RetAfterExcerptMerged(r, content) == IF content.ok THEN r ELSE make_ret("FileBadFormat")

\* The value loadMscz keeps in ret once an excerpt has been read: the verdict
\* of Read400::read400 on the excerpt is not looked at.
RetAfterExcerpt(r, content) == r

\* An Excerpt whose tracks are taken before its content is parsed.
NewExcerptNoTracks(name, part, content) == [name |-> name, score |-> part, tracks |-> {}]

\* The Excerpt loadMscz builds for a name, a part score and the parsed tracks.
NewExcerpt(name, part, content) == [name |-> name, score |-> part, tracks |-> content.tracks]

\* MasterScore::addExcerpt
addExcerpt(m, ex) == [m EXCEPT !.excerpts = Append(@, ex)]

\* Where control goes when read returns.
AfterRead == IF entry = "loadMscz" THEN "readDone" ELSE "done"

\* read returns r: to loadMscz, which keeps it in ret, or to the caller.
ReadReturns(r) ==
    /\ readRet' = r
    /\ ret' = IF entry = "loadMscz" THEN r ELSE ret
    /\ result' = IF entry = "loadMscz" THEN result ELSE r
    /\ pc' = AfterRead

\* The components of the version attribute of the element at the cursor.
VersionParts(toks, pos) == Split(toks[pos].version, ".")

\* sl[1].toInt(): reading past the end of the list is undefined behaviour.
MinorValues(sl) == IF Len(sl) >= 2 THEN { ToInt(sl[2], 10) } ELSE GarbageInts

MscVersion(sl, minor) == ToInt(sl[1], 10) * 100 + minor

\* ---------------------------------------------------------------- loadMscz

\* loadMscz on a package that is not open: the precondition fails.
LoadMsczNotOpened ==
    /\ pc = "idle"
    /\ entry' = "loadMscz"
    /\ opened' = FALSE
    /\ result' = [err |-> "FileOpenError", text |-> "filePath"]
    /\ pc' = "done"
    /\ UNCHANGED << ignoreVersionError, testMode, styleHook, tokens, xmlPos, xmlError,
                    master, master0, rootPos, names, todo, parts, log, readRet, ret >>

\* loadMscz up to the call of read: the style and the chord list side files
\* are applied to the master, the context and the style hook are built.
\* (The image store is process-wide and holds nothing the loader reads back.)
LoadMscz ==
    /\ pc = "idle"
    /\ \E side \in SideFiles, n \in 0..MaxExcerpts :
          /\ n <= Len(AllNames)
          /\ names' = SubSeq(AllNames, 1, n)
          /\ master' = [master EXCEPT
                          !.style = IF side.style THEN "file" ELSE @,
                          !.chordList = IF side.chordList THEN "file" ELSE @]
    /\ entry' = "loadMscz"
    /\ opened' = TRUE
    /\ styleHook' = TRUE
    /\ ret' = make_ok
    /\ pc' = "read"
    /\ UNCHANGED << ignoreVersionError, testMode, tokens, xmlPos, xmlError, master0,
                    rootPos, todo, parts, log, readRet, result >>

\* A caller enters read directly, with or without a style hook.
ReadDirect ==
    /\ pc = "idle"
    /\ \E h \in BOOLEAN : styleHook' = h
    /\ entry' = "read"
    /\ pc' = "read"
    /\ UNCHANGED << opened, ignoreVersionError, testMode, tokens, xmlPos, xmlError,
                    master, master0, rootPos, names, todo, parts, log, readRet, ret,
                    result >>

\* -------------------------------------------------------------------- read

AtRoot(nx) == nx.ok /\ tokens[nx.pos].name = "museScore"

\* A top-level element that is not the root: e.unknown().
ReadUnknown ==
    /\ pc = "read"
    /\ LET nx == readNextStartElement(tokens, xmlPos) IN
          /\ nx.ok
          /\ tokens[nx.pos].name # "museScore"
          /\ xmlPos' = TopUnknown(tokens, nx.pos)
    /\ UNCHANGED << pc, entry, opened, ignoreVersionError, testMode, styleHook, tokens,
                    xmlError, master, master0, rootPos, names, todo, parts, log,
                    readRet, ret, result >>

\* The stream ends and no root element was found.
ReadNoRoot ==
    /\ pc = "read"
    /\ LET nx == readNextStartElement(tokens, xmlPos) IN
          /\ ~nx.ok
          /\ xmlPos' = nx.pos
    /\ ReadReturns(CorruptedRet(errorString(tokens)))
    /\ UNCHANGED << entry, opened, ignoreVersionError, testMode, styleHook, tokens,
                    xmlError, master, master0, rootPos, names, todo, parts, log >>

\* The root element, its version attribute has no second component and the
\* out-of-range read of sl[1] ends the program.
ReadRootCrash ==
    /\ pc = "read"
    /\ LET nx == readNextStartElement(tokens, xmlPos) IN
          /\ AtRoot(nx)
          /\ Len(VersionParts(tokens, nx.pos)) < 2
          /\ xmlPos' = nx.pos
          /\ rootPos' = nx.pos
    /\ pc' = "crashed"
    /\ UNCHANGED << entry, opened, ignoreVersionError, testMode, styleHook, tokens,
                    xmlError, master, master0, names, todo, parts, log, readRet, ret,
                    result >>

\* The root element, and the version-acceptance policy rejects its version.
ReadVersionError ==
    /\ pc = "read"
    /\ LET nx == readNextStartElement(tokens, xmlPos)
           sl == VersionParts(tokens, nx.pos)
       IN  /\ AtRoot(nx)
           /\ \E minor \in MinorValues(sl) :
                 LET v == MscVersion(sl, minor) IN
                    /\ VersionError(v, ignoreVersionError) # "NoError"
                    /\ master' = [master EXCEPT !.mscVersion = v]
                    /\ ReadReturns(make_ret(VersionError(v, ignoreVersionError)))
           /\ xmlPos' = nx.pos
           /\ rootPos' = nx.pos
    /\ UNCHANGED << entry, opened, ignoreVersionError, testMode, styleHook, tokens,
                    xmlError, master0, names, todo, parts, log >>

\* The calls read makes before the chosen reader runs.
BeforeReader(v) ==
    IF NeedsDefaultStyle(styleHook, v, testMode) THEN <<"setupDefaultStyle">> ELSE <<>>

\* The root element, an accepted version, and one of the legacy readers, which
\* reads the root element to its end and returns its classification.
ReadLegacy ==
    /\ pc = "read"
    /\ LET nx == readNextStartElement(tokens, xmlPos)
           sl == VersionParts(tokens, nx.pos)
       IN  /\ AtRoot(nx)
           /\ \E minor \in MinorValues(sl), err \in LegacyErrs :
                 LET v == MscVersion(sl, minor) IN
                    /\ VersionError(v, ignoreVersionError) = "NoError"
                    /\ SelectReader(v, testMode) # "doRead"
                    /\ log' = log \o BeforeReader(v) \o <<SelectReader(v, testMode)>>
                    /\ master' = FinishRead([master EXCEPT !.mscVersion = v])
                    /\ ReadReturns(make_ret(err))
           /\ xmlPos' = skipCurrentElement(tokens, nx.pos)
           /\ rootPos' = nx.pos
    /\ UNCHANGED << entry, opened, ignoreVersionError, testMode, styleHook, tokens,
                    xmlError, master0, names, todo, parts >>

\* MasterScore::checkChordList: the default chord list when none was loaded.
checkChordList(m) == [m EXCEPT !.chordList = IF @ = "none" THEN "default" ELSE @]

\* The root element, an accepted version, and the current-generation reader:
\* the chord list is checked and doRead starts on the children of the root.
ReadCurrent ==
    /\ pc = "read"
    /\ LET nx == readNextStartElement(tokens, xmlPos)
           sl == VersionParts(tokens, nx.pos)
       IN  /\ AtRoot(nx)
           /\ \E minor \in MinorValues(sl) :
                 LET v == MscVersion(sl, minor) IN
                    /\ VersionError(v, ignoreVersionError) = "NoError"
                    /\ SelectReader(v, testMode) = "doRead"
                    /\ log' = log \o BeforeReader(v) \o <<"checkChordList", "doRead">>
                    /\ master' = checkChordList([master EXCEPT !.mscVersion = v])
           /\ xmlPos' = nx.pos
           /\ rootPos' = nx.pos
    /\ pc' = "doRead"
    /\ UNCHANGED << entry, opened, ignoreVersionError, testMode, styleHook, tokens,
                    xmlError, master0, names, todo, parts, readRet, ret, result >>

\* ------------------------------------------------------------------ doRead

\* The tag doRead branches on, when the stream has a next start element.
Tag(nx) == tokens[nx.pos].name

\* The errors a stream may report after a failed read that is not critical.
PlainErrors == { "NoError", "NotWellFormedError" }

\* doRead returns err and read ends: the flags are reset, the classification
\* is converted to the result.
DoReadReturns(m, err) ==
    /\ master' = FinishRead(m)
    /\ ReadReturns(make_ret(err))

DoReadProgramVersion ==
    /\ pc = "doRead"
    /\ LET nx == readNextStartElement(tokens, xmlPos) IN
          /\ nx.ok
          /\ Tag(nx) = "programVersion"
          /\ master' = [master EXCEPT !.mscoreVersion = readText(tokens, nx.pos)]
          /\ xmlPos' = skipCurrentElement(tokens, nx.pos)
    /\ UNCHANGED << pc, entry, opened, ignoreVersionError, testMode, styleHook, tokens,
                    xmlError, master0, rootPos, names, todo, parts, log, readRet, ret,
                    result >>

DoReadProgramRevision ==
    /\ pc = "doRead"
    /\ LET nx == readNextStartElement(tokens, xmlPos) IN
          /\ nx.ok
          /\ Tag(nx) = "programRevision"
          /\ master' = [master EXCEPT !.mscoreRevision = ToInt(readText(tokens, nx.pos), 16)]
          /\ xmlPos' = skipCurrentElement(tokens, nx.pos)
    /\ UNCHANGED << pc, entry, opened, ignoreVersionError, testMode, styleHook, tokens,
                    xmlError, master0, rootPos, names, todo, parts, log, readRet, ret,
                    result >>

\* A Score element that Read400::readScore400 reads to its end.
DoReadScore ==
    /\ pc = "doRead"
    /\ LET nx == readNextStartElement(tokens, xmlPos) IN
          /\ nx.ok
          /\ Tag(nx) = "Score"
          /\ tokens[nx.pos].parse = "ok"
          /\ master' = [master EXCEPT !.scores = @ + 1]
          /\ xmlPos' = skipCurrentElement(tokens, nx.pos)
    /\ log' = Append(log, "readScore400")
    /\ UNCHANGED << pc, entry, opened, ignoreVersionError, testMode, styleHook, tokens,
                    xmlError, master0, rootPos, names, todo, parts, readRet, ret, result >>

\* A Score element that Read400::readScore400 fails on: doRead returns at once.
DoReadScoreFails ==
    /\ pc = "doRead"
    /\ LET nx == readNextStartElement(tokens, xmlPos) IN
          /\ nx.ok
          /\ Tag(nx) = "Score"
          /\ tokens[nx.pos].parse # "ok"
          /\ xmlPos' = nx.pos
          /\ xmlError' \in (IF tokens[nx.pos].parse = "failCustom"
                            THEN {"CustomError"} ELSE PlainErrors)
    /\ log' = Append(log, "readScore400")
    /\ DoReadReturns(master, ScoreErr(xmlError'))
    /\ UNCHANGED << entry, opened, ignoreVersionError, testMode, styleHook, tokens,
                    master0, rootPos, names, todo, parts >>

DoReadRevision ==
    /\ pc = "doRead"
    /\ LET nx == readNextStartElement(tokens, xmlPos) IN
          /\ nx.ok
          /\ Tag(nx) = "Revision"
          /\ xmlPos' = skipCurrentElement(tokens, nx.pos)
    /\ UNCHANGED << pc, entry, opened, ignoreVersionError, testMode, styleHook, tokens,
                    xmlError, master, master0, rootPos, names, todo, parts, log,
                    readRet, ret, result >>

\* Any other tag: no branch of doRead takes it, and the loop goes on from the
\* start element the cursor is on.
DoReadOther ==
    /\ pc = "doRead"
    /\ LET nx == readNextStartElement(tokens, xmlPos) IN
          /\ nx.ok
          /\ Tag(nx) \notin { "programVersion", "programRevision", "Score", "Revision" }
          /\ xmlPos' = nx.pos
    /\ UNCHANGED << pc, entry, opened, ignoreVersionError, testMode, styleHook, tokens,
                    xmlError, master, master0, rootPos, names, todo, parts, log,
                    readRet, ret, result >>

\* readNextStartElement gives FALSE: the loop of doRead ends with NoError.
DoReadEnd ==
    /\ pc = "doRead"
    /\ LET nx == readNextStartElement(tokens, xmlPos) IN
          /\ ~nx.ok
          /\ xmlPos' = nx.pos
    /\ DoReadReturns(master, "NoError")
    /\ UNCHANGED << entry, opened, ignoreVersionError, testMode, styleHook, tokens,
                    xmlError, master0, rootPos, names, todo, parts, log >>

\* ------------------------------------------------- loadMscz, after the read

\* The excerpts are read only for a master of version 400 or later.
BeginExcerpts ==
    /\ pc = "readDone"
    /\ todo' = IF ReadsExcerpts(master.mscVersion) THEN names ELSE <<>>
    /\ pc' = "excerpts"
    /\ UNCHANGED << entry, opened, ignoreVersionError, testMode, styleHook, tokens,
                    xmlPos, xmlError, master, master0, rootPos, names, parts, log,
                    readRet, ret, result >>

\* One turn of the loop over the excerpt names: a new part score with the
\* default style and its own style file, an Excerpt bound to it, the content
\* parsed by Read400::read400 in a context seeded from the master's links,
\* the measures linked, the tracks, the name, and the Excerpt added.
ReadExcerpt ==
    /\ pc = "excerpts"
    /\ todo # <<>>
    /\ LET content == ExcerptContent(Head(todo))
           part == Len(parts) + 1
       IN
             /\ parts' = Append(parts, [ defaultStyle |-> TRUE, style |-> "file",
                                         linksFromMaster |-> TRUE, ok |-> content.ok,
                                         tracks |-> content.tracks,
                                         measuresLinked |-> TRUE ])
             /\ master' = addExcerpt(master, NewExcerpt(Head(todo), part, content))
             /\ ret' = RetAfterExcerpt(ret, content)
    /\ log' = log \o <<"setupDefaultStyle(part)", "read400">>
    /\ todo' = Tail(todo)
    /\ UNCHANGED << pc, entry, opened, ignoreVersionError, testMode, styleHook, tokens,
                    xmlPos, xmlError, master0, rootPos, names, readRet, result >>

\* The audio data is attached when the master has audio, and ret is returned.
\* (The compatibility settings of the context move to the caller.)
ReadAudioAndReturn ==
    /\ pc = "excerpts"
    /\ todo = <<>>
    /\ master' = [master EXCEPT !.audio = IF @ # "none" THEN "data" ELSE @]
    /\ result' = ret
    /\ pc' = "done"
    /\ UNCHANGED << entry, opened, ignoreVersionError, testMode, styleHook, tokens,
                    xmlPos, xmlError, master0, rootPos, names, todo, parts, log,
                    readRet, ret >>

Next ==
    \/ LoadMsczNotOpened
    \/ LoadMscz
    \/ ReadDirect
    \/ ReadUnknown
    \/ ReadNoRoot
    \/ ReadRootCrash
    \/ ReadVersionError
    \/ ReadLegacy
    \/ ReadCurrent
    \/ DoReadProgramVersion
    \/ DoReadProgramRevision
    \/ DoReadScore
    \/ DoReadScoreFails
    \/ DoReadRevision
    \/ DoReadOther
    \/ DoReadEnd
    \/ BeginExcerpts
    \/ ReadExcerpt
    \/ ReadAudioAndReturn

Spec == Init /\ [][Next]_vars

\* --------------------------------------------------------------- properties

Readers == { "read114", "read206", "read302", "doRead" }
VersionErrs == { "FileTooNew", "FileTooOld", "FileOld300Format" }

\* The version-specific readers read has started, in order.
ReadersCalled == SelectSeq(log, LAMBDA e : e \in Readers)

\* How often the style hook of read has staged the default style.
HookCalls == Len(SelectSeq(log, LAMBDA e : e = "setupDefaultStyle"))

\* read has returned.
ReadReturned == readRet # NoRet

\* read has just returned: none of what it read or wrote changes afterwards.
ReadJustReturned == ReadReturned /\ pc = AfterRead

\* read has handled a root element and set the version of the master from it.
RootHandled == rootPos # 0 /\ pc # "crashed"

\* loadMscz passed the check of the package and has returned.
LoadCompleted == pc = "done" /\ entry = "loadMscz" /\ opened

\* C1: with version errors enforced, read returns FileTooNew for a version
\* above MSCVERSION, otherwise FileTooOld for one below 114, otherwise
\* FileOld300Format for 300, and starts no reader in these cases; with
\* ignoreVersionError set it returns none of the three and starts exactly one
\* reader.
C1_VersionPolicy ==
    (ReadReturned /\ RootHandled) =>
        LET v == master.mscVersion
            e == readRet.err
        IN  /\ (~ignoreVersionError /\ v > MSCVERSION)
                  => (e = "FileTooNew" /\ ReadersCalled = <<>>)
            /\ (~ignoreVersionError /\ v <= MSCVERSION /\ v < 114)
                  => (e = "FileTooOld" /\ ReadersCalled = <<>>)
            /\ (~ignoreVersionError /\ v <= MSCVERSION /\ v >= 114 /\ v = 300)
                  => (e = "FileOld300Format" /\ ReadersCalled = <<>>)
            /\ ignoreVersionError
                  => (e \notin VersionErrs /\ Len(ReadersCalled) = 1)

C1_Witness ==
    /\ ReadReturned /\ RootHandled
    /\ ~ignoreVersionError
    /\ master.mscVersion = 300
    /\ readRet.err = "FileOld300Format"
    /\ ReadersCalled = <<>>

\* The version-acceptance policy rejects version v.
Rejected(v) == ~ignoreVersionError /\ (v > MSCVERSION \/ v < 114 \/ v = 300)

\* C2 as stated: for a version that is not rejected, read starts exactly one
\* reader, chosen by the version alone: read114 up to 114, read206 for
\* 115..207, read302 for 208..399 and doRead from 400 on.
C2_ReaderByVersionAlone ==
    (RootHandled /\ ~Rejected(master.mscVersion)) =>
        LET v == master.mscVersion IN
            ReadersCalled =
                << IF v <= 114 THEN "read114"
                   ELSE IF v <= 207 THEN "read206"
                   ELSE IF v <= 399 THEN "read302"
                   ELSE "doRead" >>

\* C2 amended: for a version that is not rejected, read starts exactly one
\* reader, chosen by the version and the test-mode switch: read114 up to 114,
\* read206 for 115..207, read302 for 208..399 and, while test mode is active,
\* for every version from 208 on, doRead from 400 on outside test mode.
C2_ReaderByVersionAndTestMode ==
    (RootHandled /\ ~Rejected(master.mscVersion)) =>
        LET v == master.mscVersion IN
            ReadersCalled =
                << IF v <= 114 THEN "read114"
                   ELSE IF v <= 207 THEN "read206"
                   ELSE IF v <= 399 \/ testMode THEN "read302"
                   ELSE "doRead" >>

C2_Witness ==
    /\ RootHandled
    /\ testMode
    /\ master.mscVersion >= 400
    /\ ReadersCalled = <<"read302">>

\* C3 as stated: after every load that passed the check of the package and
\* returned, with success or with any error, both flags are false.
C3_FlagsFalseAfterAnyLoad ==
    LoadCompleted => (~master.excerptsChanged /\ ~master.autosaveDirty)

\* C3 amended: in a load that passed the check of the package, once read has
\* returned, both flags are false if read started a version-specific reader,
\* whatever that reader returned and whatever the flags were before, and both
\* have the value they had before the call if read ended in a version error or
\* found no root element.
C3_FlagsFalseAfterReader ==
    (entry = "loadMscz" /\ opened /\ ReadReturned) =>
        IF ReadersCalled # <<>>
        THEN ~master.excerptsChanged /\ ~master.autosaveDirty
        ELSE /\ master.excerptsChanged = master0.excerptsChanged
             /\ master.autosaveDirty = master0.autosaveDirty

C3_Witness ==
    /\ LoadCompleted
    /\ ReadersCalled # <<>>
    /\ result.err = "FileBadFormat"
    /\ master0.excerptsChanged /\ master0.autosaveDirty
    /\ ~master.excerptsChanged /\ ~master.autosaveDirty

\* C4: the value loadMscz returns after it passed the check of the package is
\* the value read returned for the main score stream, whatever happened while
\* the excerpts and the audio were read.
C4_ResultIsReadResult ==
    LoadCompleted => result = readRet

C4_Witness ==
    /\ LoadCompleted
    /\ \E i \in 1..Len(parts) : ~parts[i].ok
    /\ master.audio = "data"
    /\ result = make_ok
    /\ result = readRet

\* The nesting depth of position p: the start elements before it that are
\* still open.
RECURSIVE DepthAt(_, _)
DepthAt(toks, p) ==
    IF p <= 1 THEN 0
    ELSE DepthAt(toks, p - 1)
           + (IF toks[p - 1].k = "S" THEN 1 ELSE IF toks[p - 1].k = "E" THEN -1 ELSE 0)

\* The museScore elements among the top-level elements of the stream.
RECURSIVE TopRootsFrom(_, _, _)
TopRootsFrom(toks, p, depth) ==
    IF p > Len(toks) THEN {}
    ELSE IF toks[p].k = "S"
    THEN (IF depth = 0 /\ toks[p].name = "museScore" THEN {p} ELSE {})
            \cup TopRootsFrom(toks, p + 1, depth + 1)
    ELSE IF toks[p].k = "E" THEN TopRootsFrom(toks, p + 1, depth - 1)
    ELSE TopRootsFrom(toks, p + 1, depth)

TopRoots == TopRootsFrom(tokens, 1, 0)

\* C5: a fresh master, a declared version of 400 or more, n declared excerpt
\* names and a successful load: the master owns exactly n Excerpts in the
\* order of the names, the i-th with the i-th name, bound to the i-th part
\* score the load created and holding the tracks that parsing the content of
\* that part produced.
C5_ExcerptsOfSuccessfulLoad ==
    (LoadCompleted /\ RootHandled /\ master0.excerpts = <<>>
       /\ master.mscVersion >= 400 /\ result.err = "NoError") =>
        /\ Len(master.excerpts) = Len(names)
        /\ Len(parts) = Len(names)
        /\ \A i \in 1..Len(names) :
              /\ master.excerpts[i].name = names[i]
              /\ master.excerpts[i].score = i
              /\ master.excerpts[i].tracks = parts[i].tracks

C5_Witness ==
    /\ LoadCompleted /\ RootHandled
    /\ master0.excerpts = <<>>
    /\ master.mscVersion >= 400
    /\ result.err = "NoError"
    /\ Len(names) = 2
    /\ Len(master.excerpts) = 2
    /\ master.excerpts[2].name = "Cello"

\* C6: in a load whose master declares a version below 400, no part score is
\* created and no Excerpt is added to the master, whatever the package
\* declares, whether version errors are ignored or not and whatever read
\* returns.
C6_NoExcerptsBelow400 ==
    (entry = "loadMscz" /\ RootHandled /\ master.mscVersion < 400) =>
        /\ parts = <<>>
        /\ master.excerpts = master0.excerpts
        /\ \A i \in 1..Len(log) : log[i] # "read400"

C6_Witness ==
    /\ LoadCompleted /\ RootHandled
    /\ master.mscVersion < 400
    /\ ReadersCalled # <<>>
    /\ names # <<>>
    /\ parts = <<>>

\* C7: read returns FileCorrupted with the diagnostic of the stream exactly
\* when no top-level element of the stream is a museScore element, and then
\* every top-level element was skipped; when there is one, the first is the
\* one read handles, it sets the version, at most one reader runs and the
\* cursor never goes past the end of that element.
C7_CorruptedIffNoRoot ==
    ReadJustReturned =>
      LET roots == TopRoots IN
        /\ (readRet.err = "FileCorrupted") <=> (roots = {})
        /\ roots = {} =>
              /\ readRet = [err |-> "FileCorrupted", text |-> errorString(tokens)]
              /\ rootPos = 0
              /\ xmlPos = Len(tokens) + 1
              /\ ReadersCalled = <<>>
        /\ roots # {} =>
              /\ rootPos \in roots /\ \A q \in roots : rootPos <= q
              /\ xmlPos <= skipCurrentElement(tokens, rootPos)
              /\ Len(ReadersCalled) <= 1
              /\ LET sl == Split(tokens[rootPos].version, ".") IN
                    Len(sl) >= 2 =>
                        master.mscVersion = ToInt(sl[1], 10) * 100 + ToInt(sl[2], 10)

C7_Witness ==
    /\ ReadReturned
    /\ readRet.err = "FileCorrupted"
    /\ tokens # <<>>
    /\ \E p \in 1..Len(tokens) : tokens[p].name = "museScore"

\* Two museScore elements at the top level: only the first was handled.
C7_FirstRootOnly ==
    /\ ReadReturned
    /\ Cardinality(TopRoots) = 2
    /\ \A q \in TopRoots : rootPos <= q

\* One step of C8: in doRead a Score element whose reader fails gives
\* FileCriticallyCorrupted when the stream is in its custom-error state and
\* FileBadFormat otherwise; doRead ends with NoError in every other case; a
\* Revision element is skipped as a whole and changes neither the result nor
\* the document.
C8_Step ==
    pc = "doRead" =>
        LET nx == readNextStartElement(tokens, xmlPos)
            failed == nx.ok /\ tokens[nx.pos].name = "Score" /\ tokens[nx.pos].parse # "ok"
        IN  /\ failed =>
                 /\ pc' # "doRead"
                 /\ readRet'.err = IF xmlError' = "CustomError"
                                   THEN "FileCriticallyCorrupted" ELSE "FileBadFormat"
            /\ (pc' # "doRead" /\ ~failed) => readRet'.err = "NoError"
            /\ (nx.ok /\ tokens[nx.pos].name = "Revision") =>
                 /\ master' = master
                 /\ readRet' = readRet
                 /\ pc' = "doRead"
                 /\ xmlPos' = skipCurrentElement(tokens, nx.pos)

\* C8: every step of doRead classifies a failed Score element, ends with
\* NoError otherwise, and skips a Revision element without any other change.
C8_DoReadClassification == [][C8_Step]_vars

C8_Witness ==
    /\ ReadReturned
    /\ ReadersCalled = <<"doRead">>
    /\ xmlError = "CustomError"
    /\ readRet.err = "FileCriticallyCorrupted"

\* The children of the root element, as positions of their start elements.
RootChildren ==
    { p \in (rootPos + 1)..Len(tokens) :
         /\ tokens[p].k = "S"
         /\ p < skipCurrentElement(tokens, rootPos)
         /\ DepthAt(tokens, p) = DepthAt(tokens, rootPos) + 1 }

\* What reading the children from position p on gives when every child that
\* is not programVersion, programRevision or Score is skipped as a whole.
RECURSIVE ExpectedFrom(_, _)
ExpectedFrom(p, acc) ==
    IF \A q \in RootChildren : q < p
    THEN acc
    ELSE LET c == CHOOSE q \in RootChildren :
                     q >= p /\ \A r \in RootChildren : r >= p => q <= r
             tag == tokens[c].name
         IN  IF tag = "programVersion"
             THEN ExpectedFrom(c + 1, [acc EXCEPT !.mscoreVersion = readText(tokens, c)])
             ELSE IF tag = "programRevision"
             THEN ExpectedFrom(c + 1,
                      [acc EXCEPT !.mscoreRevision = ToInt(readText(tokens, c), 16)])
             ELSE IF tag = "Score" /\ tokens[c].parse = "ok"
             THEN ExpectedFrom(c + 1, [acc EXCEPT !.scores = @ + 1])
             ELSE IF tag = "Score"
             THEN [acc EXCEPT !.err = IF tokens[c].parse = "failCustom"
                                      THEN "FileCriticallyCorrupted" ELSE "FileBadFormat"]
             ELSE ExpectedFrom(c + 1, acc)

Expected ==
    ExpectedFrom(rootPos + 1,
        [ mscoreVersion |-> master0.mscoreVersion, mscoreRevision |-> master0.mscoreRevision,
          scores |-> master0.scores, err |-> "NoError" ])

\* C9: in doRead a child of the root that is none of programVersion,
\* programRevision, Score and Revision is skipped as a whole: nothing inside
\* it is read as a field of the document and every child after it is read as
\* if the unknown child were not there.
C9_UnknownChildSkipped ==
    (ReadReturned /\ ReadersCalled = <<"doRead">>) =>
        /\ master.mscoreVersion = Expected.mscoreVersion
        /\ master.mscoreRevision = Expected.mscoreRevision
        /\ master.scores = Expected.scores
        /\ readRet.err = Expected.err

\* The same, for the streams whose root has no unknown child.
NoUnknownChild ==
    \A p \in RootChildren :
        tokens[p].name \in { "programVersion", "programRevision", "Score", "Revision" }

KnownChildrenAsExpected ==
    (ReadReturned /\ ReadersCalled = <<"doRead">> /\ NoUnknownChild) =>
        /\ master.mscoreVersion = Expected.mscoreVersion
        /\ master.mscoreRevision = Expected.mscoreRevision
        /\ master.scores = Expected.scores
        /\ readRet.err = Expected.err

\* C10: given a style hook and a version the policy accepts, read stages the
\* default style exactly once and before the reader starts when the version
\* is below 400 or test mode is active, and not at all when the version is
\* 400 or more outside test mode; the style is never staged after a reader
\* has started, and never when read ends in a version error.
C10_StyleBeforeReader ==
    LET v == master.mscVersion
        hookAt == { i \in 1..Len(log) : log[i] = "setupDefaultStyle" }
        readerAt == { i \in 1..Len(log) : log[i] \in Readers }
    IN  /\ (styleHook /\ readerAt # {}) =>
              IF v < 400 \/ testMode
              THEN Cardinality(hookAt) = 1 /\ \A i \in hookAt, j \in readerAt : i < j
              ELSE hookAt = {}
        /\ \A i \in hookAt, j \in readerAt : i < j
        /\ (ReadReturned /\ readRet.err \in VersionErrs) => hookAt = {}
        /\ ~styleHook => hookAt = {}

C10_Witness ==
    /\ styleHook
    /\ testMode
    /\ master.mscVersion >= 400
    /\ ReadersCalled = <<"read302">>
    /\ log[1] = "setupDefaultStyle"
    /\ HookCalls = 1

====
